---- MODULE Spec2Model ----
(***************************************************************************)
(* Model of rpc_example/scripts/build_kotlin.py: the Kotlin binding build  *)
(* pipeline.  The state is the part of the filesystem the script touches,  *)
(* the position of main, the lines and calls of the current run, and the   *)
(* outcome of the process.  External tools (cargo, the bindings generator, *)
(* curl) are nondeterministic: they return any exit code and write the     *)
(* files their command line names, or fail to.                             *)
(***************************************************************************)
EXTENDS Integers, Sequences, FiniteSets, TLC

VARIABLES os, ext, pc, run, fs, trace, result, genPre, downloads, exc,
          failedStep, exitStatus

vars == <<os, ext, pc, run, fs, trace, result, genPre, downloads, exc,
          failedStep, exitStatus>>

----------------------------------------------------------------------------
(* Bounds *)

\* number of consecutive runs of the script on the same filesystem
MaxRuns == 2

----------------------------------------------------------------------------
(* Values *)

\* an exit code or file stamp that is not there
None == 0 - 1

\* stamp of a file that is not on disk
Absent == 0 - 1

\* stamp of a file written before the first run; a file written by run r
\* carries stamp r
Old == 0

\* exit codes an external process may report
ExitCodes == {0, 1}

\* exit status of sys.exit(<string>): the string goes to stderr, status 1
ExitFailure == 1

\* exit status when main returns
ExitSuccess == 0

\* operating system identifiers platform.system() may return, as character
\* sequences
Darwin == <<"D", "a", "r", "w", "i", "n">>
DARWIN == <<"D", "A", "R", "W", "I", "N">>
Linux == <<"L", "i", "n", "u", "x">>
Windows == <<"W", "i", "n", "d", "o", "w", "s">>
FreeBSD == <<"F", "r", "e", "e", "B", "S", "D">>
Java == <<"J", "a", "v", "a">>
EmptyId == << >>

OSIds == {Darwin, DARWIN, Linux, Windows, FreeBSD, Java, EmptyId}

\* the string literals get_lib_extension compares with
darwin == <<"d", "a", "r", "w", "i", "n">>
linux == <<"l", "i", "n", "u", "x">>
windows == <<"w", "i", "n", "d", "o", "w", "s">>

UpperChars == <<"A", "B", "C", "D", "E", "F", "G", "H", "I", "J", "K", "L", "M",
                "N", "O", "P", "Q", "R", "S", "T", "U", "V", "W", "X", "Y", "Z">>
LowerChars == <<"a", "b", "c", "d", "e", "f", "g", "h", "i", "j", "k", "l", "m",
                "n", "o", "p", "q", "r", "s", "t", "u", "v", "w", "x", "y", "z">>

\* str.lower() on one character
LowerChar(c) ==
    IF \E i \in 1..Len(UpperChars) : UpperChars[i] = c
    THEN LowerChars[CHOOSE i \in 1..Len(UpperChars) : UpperChars[i] = c]
    ELSE c

\* a comparison that keeps the case of the identifier
LowerKeepsCase(s) == s

\* str.lower()
Lower(s) == [i \in 1..Len(s) |-> LowerChar(s[i])]

\* the files the bindings generator may write under
\* KOTLIN_OUT_DIR/uniffi/rpc_example/
MainKt == "rpc_example.kt"
GenFiles == {"rpc_example.kt", "extra.kt"}

\* the two vendor entries, in the order dependencies() handles them
VendorFiles == <<"jna.jar", "kotlinx-coroutines.jar">>
VendorSet == {VendorFiles[i] : i \in 1..Len(VendorFiles)}

\* test_names of run_tests and the script each one names
test_names == <<"blocking">>
TestScript(test_name) == CASE test_name = "blocking" -> "blocking_test.kts"

\* the commands of the script
CargoBuild == <<"cargo", "build">>
Bindgen == <<"cargo", "uniffi-bindgen">>
Cp == <<"cp", "cdylib">>
Curl(v) == <<"curl", v>>
KotlincJar == <<"kotlinc", "rpc_example.jar">>
KotlincScript(test_name) == <<"kotlinc", TestScript(test_name)>>

Commands == {CargoBuild, Bindgen, KotlincJar}
              \cup {Curl(v) : v \in VendorSet}
              \cup {KotlincScript(test_names[i]) : i \in 1..Len(test_names)}

\* the steps of main in the order it calls them
StepOrder == <<"resolve-platform", "build-library", "generate-bindings",
               "copy-artifact", "fetch-dependencies", "build-package",
               "run-tests">>

Event(kind, cmd) == [kind |-> kind, cmd |-> cmd]
StepEvent(step) == Event("step", <<"main", step>>)

NoResult == [c \in Commands |-> None]

----------------------------------------------------------------------------
(* The filesystem *)

Stamps0 == {Absent, Old}

FsInit ==
    { f \in [outDir : BOOLEAN,
             libPath : {"absent", "file", "dir"},
             gen : [GenFiles -> Stamps0],
             targetLib : Stamps0,
             destLib : Stamps0,
             vendorDir : BOOLEAN,
             vendor : [VendorSet -> {"absent", "partial", "complete"}],
             jar : Stamps0] :
        /\ ~f.outDir => /\ f.libPath = "absent"
                        /\ \A g \in GenFiles : f.gen[g] = Absent
                        /\ f.destLib = Absent
                        /\ ~f.vendorDir
                        /\ f.jar = Absent
        /\ ~f.vendorDir => \A v \in VendorSet : f.vendor[v] = "absent" }

----------------------------------------------------------------------------
(* run_command *)

\* a runner that launches the process before it prints the command
run_commandExecFirst(tr, command, print_only) ==
    IF print_only
    THEN Append(tr, Event("echo", command))
    ELSE tr \o <<Event("exec", command), Event("echo", command)>>

\* the lines run_command prints and the process it launches
run_command(tr, command, print_only) ==
    IF print_only
    THEN Append(tr, Event("echo", command))
    ELSE tr \o <<Event("echo", command), Event("exec", command)>>

\* run_command launches a process unless print_only
Launches(print_only) == ~print_only

----------------------------------------------------------------------------
(* get_lib_extension *)

\* the extension returned for platform.system() = system, or "exit" where
\* the function calls sys.exit instead of returning
get_lib_extension(system) ==
    LET current_os == Lower(system)
    IN  IF current_os = darwin THEN "dylib"
        ELSE IF current_os = linux THEN "so"
        ELSE IF current_os = windows THEN "dll"
        ELSE "exit"

----------------------------------------------------------------------------
(* State after construction: the interpreter is about to call main *)

Init ==
    /\ os \in OSIds
    /\ ext = "none"
    /\ pc = "resolve-platform"
    /\ run = 1
    /\ fs \in FsInit
    /\ trace = << >>
    /\ result = NoResult
    /\ genPre = [g \in GenFiles |-> Absent]
    /\ downloads = [v \in VendorSet |-> 0]
    /\ exc = "none"
    /\ failedStep = "none"
    /\ exitStatus = None

\* an exception leaves the step and reaches the handler of the __main__ guard
Raise(step, e, tr) ==
    /\ pc' = "raised"
    /\ exc' = e
    /\ failedStep' = step
    /\ trace' = tr

\* sys.exit(<message>) inside a step: SystemExit is not an Exception, so the
\* handlers of the __main__ guard do not catch it; the status is 1
SysExit(tr) ==
    /\ pc' = "exited"
    /\ exitStatus' = ExitFailure
    /\ trace' = tr

----------------------------------------------------------------------------
(* main, line 114: lib_extension = get_lib_extension() *)

ResolvePlatform ==
    /\ pc = "resolve-platform"
    /\ LET tr == Append(trace, StepEvent("resolve-platform"))
           e == get_lib_extension(os)
       IN  IF e = "exit"
           THEN /\ SysExit(tr)
                /\ UNCHANGED ext
           ELSE /\ ext' = e
                /\ pc' = "build-library"
                /\ trace' = tr
                /\ UNCHANGED exitStatus
    /\ UNCHANGED <<os, run, fs, result, genPre, downloads, exc, failedStep>>

----------------------------------------------------------------------------
(* build_library *)

\* a builder that does not look at the exit code
BuildFailedIgnored(returncode) == FALSE

\* if result.returncode != 0: sys.exit("Failed to build library")
BuildFailed(returncode) == returncode # 0

build_library ==
    /\ pc = "build-library"
    /\ \E returncode \in ExitCodes, produced \in BOOLEAN :
          LET tr == run_command(Append(trace, StepEvent("build-library")),
                                CargoBuild, FALSE)
          IN  /\ result' = [result EXCEPT ![CargoBuild] = returncode]
              \* cargo writes TARGET_DIR/LIB_NAME.<ext> only when it succeeds,
              \* and only if that is the name its artifact gets
              /\ (returncode # 0 => ~produced)
              /\ fs' = IF produced THEN [fs EXCEPT !.targetLib = run] ELSE fs
              /\ IF BuildFailed(returncode)
                 THEN SysExit(tr)
                 ELSE /\ pc' = "generate-bindings"
                      /\ trace' = tr
                      /\ UNCHANGED exitStatus
    /\ UNCHANGED <<os, ext, run, genPre, downloads, exc, failedStep>>

----------------------------------------------------------------------------
(* generate_binding *)

\* the directory generate_binding removes: KOTLIN_OUT_DIR/LIB_NAME
RmtreeLibPath(f) == [f EXCEPT !.libPath = "absent"]

\* what the generator leaves under KOTLIN_OUT_DIR: with exit code 0 it wrote
\* a set of binding files containing the main one, otherwise any part of it
GenOutputs(returncode) ==
    IF returncode = 0
    THEN {out \in SUBSET GenFiles : MainKt \in out}
    ELSE SUBSET GenFiles

\* a generator step that ends the run on a non-zero exit code
GenerateAbortsOnFailure(returncode) == returncode # 0

\* generate_binding drops the value run_command returns: no exit code of the
\* generator ends the run
GenerateAborts(returncode) == FALSE

generate_binding ==
    /\ pc = "generate-bindings"
    /\ LET tr0 == Append(trace, StepEvent("generate-bindings"))
       IN  IF fs.libPath = "file"
           THEN \* shutil.rmtree of a regular file raises NotADirectoryError
                /\ Raise("generate-bindings", "NotADirectoryError",
                         Append(tr0, Event("call", <<"rmtree", "rpc_example">>)))
                /\ UNCHANGED <<fs, result, genPre, exitStatus>>
           ELSE \E returncode \in ExitCodes :
                \E out \in GenOutputs(returncode) :
                   LET f1 == IF fs.libPath = "dir" THEN RmtreeLibPath(fs) ELSE fs
                       tr1 == IF fs.libPath = "dir"
                              THEN Append(tr0, Event("call", <<"rmtree", "rpc_example">>))
                              ELSE tr0
                   IN  /\ genPre' = f1.gen
                       /\ result' = [result EXCEPT ![Bindgen] = returncode]
                       /\ fs' = [f1 EXCEPT
                                   !.outDir = f1.outDir \/ out # {},
                                   !.gen = [g \in GenFiles |->
                                              IF g \in out THEN run ELSE f1.gen[g]]]
                       /\ IF GenerateAborts(returncode)
                          THEN SysExit(run_command(tr1, Bindgen, FALSE))
                          ELSE /\ pc' = "copy-artifact"
                               /\ trace' = run_command(tr1, Bindgen, FALSE)
                               /\ UNCHANGED exitStatus
                       /\ UNCHANGED <<exc, failedStep>>
    /\ UNCHANGED <<os, ext, run, downloads>>

----------------------------------------------------------------------------
(* copy_cdylib *)

copy_cdylib ==
    /\ pc = "copy-artifact"
    /\ LET tr == Append(Append(Append(trace, StepEvent("copy-artifact")),
                               Event("echo", Cp)),
                        Event("call", Cp))
       IN  IF fs.targetLib = Absent \/ ~fs.outDir
           THEN \* shutil.copy: the source, or the directory of the
                \* destination, is missing
                /\ Raise("copy-artifact", "FileNotFoundError", tr)
                /\ UNCHANGED fs
           ELSE /\ fs' = [fs EXCEPT !.destLib = fs.targetLib]
                /\ pc' = "fetch-dependencies"
                /\ trace' = tr
                /\ UNCHANGED <<exc, failedStep>>
    /\ UNCHANGED <<os, ext, run, result, genPre, downloads, exitStatus>>

----------------------------------------------------------------------------
(* dependencies *)

\* what a curl run leaves at its -o path
CurlOutcomes(returncode) ==
    IF returncode = 0 THEN {"complete"} ELSE {"absent", "partial"}

\* a fetcher that downloads again what is not a complete file
NeedsDownloadUnlessComplete(f, v) == f.vendor[v] # "complete"

\* os.path.exists(<vendor file>) decides whether curl is run
NeedsDownload(f, v) == f.vendor[v] = "absent"

dependencies ==
    /\ pc = "fetch-dependencies"
    /\ \E rc \in [VendorSet -> ExitCodes] :
       \E got \in [VendorSet -> {"absent", "partial", "complete"}] :
          LET tr0 == Append(trace, StepEvent("fetch-dependencies"))
              tr1 == IF fs.vendorDir THEN tr0
                     ELSE Append(tr0, Event("call", <<"makedirs", "vendor">>))
              f1 == IF fs.vendorDir THEN fs
                    ELSE [fs EXCEPT !.vendorDir = TRUE, !.outDir = TRUE]
              need == {v \in VendorSet : NeedsDownload(f1, v)}
              jna == VendorFiles[1]
              kotlinx_coroutines == VendorFiles[2]
              tr2 == IF jna \in need THEN run_command(tr1, Curl(jna), FALSE)
                     ELSE tr1
              tr3 == IF kotlinx_coroutines \in need
                     THEN run_command(tr2, Curl(kotlinx_coroutines), FALSE)
                     ELSE tr2
          IN  /\ \A v \in VendorSet :
                   IF v \in need
                   THEN got[v] \in CurlOutcomes(rc[v])
                   ELSE got[v] = f1.vendor[v] /\ rc[v] = 0
              /\ fs' = [f1 EXCEPT !.vendor = got]
              /\ result' = [c \in Commands |->
                              IF \E v \in need : c = Curl(v)
                              THEN rc[CHOOSE v \in need : c = Curl(v)]
                              ELSE result[c]]
              /\ downloads' = [v \in VendorSet |->
                                 IF v \in need THEN downloads[v] + 1
                                 ELSE downloads[v]]
              /\ trace' = tr3
              /\ pc' = "build-package"
    /\ UNCHANGED <<os, ext, run, genPre, exc, failedStep, exitStatus>>

----------------------------------------------------------------------------
(* build_jar *)

\* a package builder that launches the compiler
BuildJarLaunches == FALSE

\* the print_only argument build_jar passes to run_command
BuildJarPrintOnly == TRUE

build_jar ==
    /\ pc = "build-package"
    /\ \E returncode \in ExitCodes :
          LET tr0 == Append(trace, StepEvent("build-package"))
              tr1 == IF fs.jar # Absent
                     THEN Append(tr0, Event("call", <<"remove", "rpc_example.jar">>))
                     ELSE tr0
              f1 == [fs EXCEPT !.jar = Absent]
              launched == Launches(BuildJarPrintOnly)
          IN  /\ (~launched => returncode = 0)
              /\ trace' = run_command(tr1, KotlincJar, BuildJarPrintOnly)
              /\ fs' = IF launched /\ returncode = 0
                       THEN [f1 EXCEPT !.jar = run]
                       ELSE f1
              /\ result' = IF launched
                           THEN [result EXCEPT ![KotlincJar] = returncode]
                           ELSE result
              /\ pc' = "run-tests"
    /\ UNCHANGED <<os, ext, run, genPre, downloads, exc, failedStep, exitStatus>>

----------------------------------------------------------------------------
(* run_tests, and the return of main *)

\* the print_only argument run_tests passes to run_command
RunTestsPrintOnly == TRUE

RECURSIVE RunTestsFrom(_, _)
\* the loop of run_tests from test number i on
RunTestsFrom(tr, i) ==
    IF i > Len(test_names) THEN tr
    ELSE RunTestsFrom(run_command(tr, KotlincScript(test_names[i]),
                                  RunTestsPrintOnly), i + 1)

run_tests ==
    /\ pc = "run-tests"
    /\ \E rc \in [1..Len(test_names) -> ExitCodes] :
          LET launched == Launches(RunTestsPrintOnly)
          IN  /\ (~launched => \A i \in 1..Len(test_names) : rc[i] = 0)
              /\ trace' = RunTestsFrom(Append(trace, StepEvent("run-tests")), 1)
              /\ result' = [c \in Commands |->
                              IF launched /\ \E i \in 1..Len(test_names) :
                                               c = KotlincScript(test_names[i])
                              THEN rc[CHOOSE i \in 1..Len(test_names) :
                                         c = KotlincScript(test_names[i])]
                              ELSE result[c]]
    \* main returns and the interpreter exits with status 0
    /\ pc' = "done"
    /\ exitStatus' = ExitSuccess
    /\ UNCHANGED <<os, ext, run, fs, genPre, downloads, exc, failedStep>>

----------------------------------------------------------------------------
(* the __main__ guard *)

\* a handler that reports success
ExceptHandlerExitsZero ==
    /\ pc = "raised"
    /\ pc' = "exited"
    /\ exitStatus' = ExitSuccess
    /\ UNCHANGED <<os, ext, run, fs, trace, result, genPre, downloads, exc,
                   failedStep>>

\* except ... as e: sys.exit(f"[ERROR] ...")
ExceptHandler ==
    /\ pc = "raised"
    /\ pc' = "exited"
    /\ exitStatus' = ExitFailure
    /\ UNCHANGED <<os, ext, run, fs, trace, result, genPre, downloads, exc,
                   failedStep>>

----------------------------------------------------------------------------
(* the script is run again on the filesystem the last run left *)

Rerun ==
    /\ pc \in {"done", "exited"}
    /\ run < MaxRuns
    /\ run' = run + 1
    /\ pc' = "resolve-platform"
    /\ ext' = "none"
    /\ trace' = << >>
    /\ result' = NoResult
    /\ exc' = "none"
    /\ failedStep' = "none"
    /\ exitStatus' = None
    /\ UNCHANGED <<os, fs, genPre, downloads>>

Next ==
    \/ ResolvePlatform
    \/ build_library
    \/ generate_binding
    \/ copy_cdylib
    \/ dependencies
    \/ build_jar
    \/ run_tests
    \/ ExceptHandler
    \/ Rerun

Spec == Init /\ [][Next]_vars

TypeOK ==
    /\ os \in OSIds
    /\ ext \in {"none", "dylib", "so", "dll"}
    /\ run \in 1..MaxRuns
    /\ exitStatus \in {None, ExitSuccess, ExitFailure}

----------------------------------------------------------------------------
(* Reading the trace of the current run *)

Kinds(tr, kind) == SelectSeq(tr, LAMBDA e : e.kind = kind)

\* the steps of main begun in this run, in order
Steps(tr) ==
    LET k == Kinds(tr, "step") IN [i \in 1..Len(k) |-> k[i].cmd[2]]

\* the commands echoed in this run, in order
Echoes(tr) ==
    LET k == Kinds(tr, "echo") IN [i \in 1..Len(k) |-> k[i].cmd]

Occurs(tr, e) == \E i \in 1..Len(tr) : tr[i] = e

IsPrefix(s, t) == Len(s) <= Len(t) /\ \A i \in 1..Len(s) : s[i] = t[i]

\* position of x in the sequence t, 0 if it is not there
IndexOf(t, x) ==
    IF \E i \in 1..Len(t) : t[i] = x
    THEN CHOOSE i \in 1..Len(t) : t[i] = x
    ELSE 0

\* the commands of a run in the order main reaches them
CommandOrder == <<CargoBuild, Bindgen, Cp, Curl(VendorFiles[1]),
                  Curl(VendorFiles[2]), KotlincJar,
                  KotlincScript(test_names[1])>>

Terminated == pc \in {"done", "exited"}

LaterSteps == {"generate-bindings", "copy-artifact", "fetch-dependencies",
               "build-package", "run-tests"}

----------------------------------------------------------------------------
(* C1 *)

\* C1: if cargo build reports a non-zero exit code, the run has ended with a
\* non-zero status and nothing follows the launch of cargo build in the run:
\* no generator command, no copy, no vendor directory or download, no package
\* build, no test command.
C1_BuildFailureEndsRun ==
    result[CargoBuild] \notin {None, 0} =>
        /\ pc = "exited"
        /\ exitStatus \notin {None, 0}
        /\ trace = <<StepEvent("resolve-platform"), StepEvent("build-library"),
                     Event("echo", CargoBuild), Event("exec", CargoBuild)>>
        /\ \A s \in LaterSteps : ~Occurs(trace, StepEvent(s))

C1_Witness ==
    /\ result[CargoBuild] = 1
    /\ pc = "exited"
    /\ exitStatus = ExitFailure

----------------------------------------------------------------------------
(* C2 *)

GenPresent(f) == {g \in GenFiles : f.gen[g] # Absent}

\* the run began with no vendor file, every command it launched reported
\* exit code 0, and the generator wrote the one binding source file
C2_Scenario ==
    /\ pc = "done"
    /\ downloads = [v \in VendorSet |-> 1]
    /\ \A v \in VendorSet : Occurs(trace, Event("exec", Curl(v)))
    /\ \A c \in Commands : result[c] \in {None, 0}
    /\ GenPresent(fs) = {MainKt}

\* C2: a full run from an empty vendor directory in which the library build
\* and every launched command succeed ends with one copied library, the two
\* vendor files, one binding source file, the archive rpc_example.jar, and
\* the one test script blocking_test.kts executed.
C2_FullRunProducesAll ==
    C2_Scenario =>
        /\ fs.destLib # Absent
        /\ \A v \in VendorSet : fs.vendor[v] = "complete"
        /\ Cardinality(GenPresent(fs)) = 1
        /\ fs.jar # Absent
        /\ Occurs(trace, Event("exec", KotlincScript("blocking")))
        /\ Cardinality({i \in 1..Len(trace) :
                          trace[i].kind = "exec" /\ trace[i].cmd[1] = "kotlinc"
                          /\ trace[i].cmd # KotlincJar}) = 1

----------------------------------------------------------------------------
(* C3 *)

\* C3: in every run of the fetcher, each vendor entry is downloaded exactly
\* when its destination file is absent when checked; a destination file that
\* exists, complete or partial, is never fetched again in any later step or
\* run, so a run that starts with both files present downloads nothing.
C3_DownloadIffAbsent ==
    [][ /\ pc = "fetch-dependencies" =>
             \A v \in VendorSet :
                /\ (fs.vendor[v] = "absent") <=>
                      (/\ downloads'[v] = downloads[v] + 1
                       /\ Occurs(trace', Event("exec", Curl(v))))
                /\ (fs.vendor[v] # "absent") <=>
                      (/\ downloads'[v] = downloads[v]
                       /\ ~Occurs(trace', Event("echo", Curl(v))))
        /\ \A v \in VendorSet :
              fs.vendor[v] # "absent" =>
                 /\ downloads'[v] = downloads[v]
                 /\ fs'.vendor[v] = fs.vendor[v]
      ]_vars

\* the second run has passed the fetcher and left alone the partial file the
\* first run's failed download wrote
C3_Witness ==
    /\ run = 2
    /\ pc = "build-package"
    /\ downloads["jna.jar"] = 1
    /\ fs.vendor["jna.jar"] = "partial"
    /\ ~Occurs(trace, Event("echo", Curl("jna.jar")))

----------------------------------------------------------------------------
(* C4 *)

\* C4: when the generator runs in a second run, its pre-delete step has
\* removed, before the generator command is invoked, every file an earlier
\* run's generator produced, and afterwards the generated tree holds only
\* files written by this run's generation.
C4_NoStaleBindings ==
    (run >= 2 /\ result[Bindgen] # None) =>
        /\ \A g \in GenFiles : genPre[g] \notin 1..(run - 1)
        /\ \A g \in GenFiles : fs.gen[g] \notin 1..(run - 1)

----------------------------------------------------------------------------
(* C5 *)

\* the package builder has run in this run and found a stale archive
C5_StaleArchiveRebuilt ==
    /\ Occurs(trace, Event("call", <<"remove", "rpc_example.jar">>))
    /\ Occurs(trace, Event("echo", KotlincJar))

\* C5: when the package builder runs while a stale rpc_example.jar exists,
\* the archive is deleted before the compiler command is issued, the compiler
\* then produces a new archive, and after the step the archive exists with
\* no content of the previous build.
C5_StaleArchiveReplaced ==
    C5_StaleArchiveRebuilt =>
        /\ IndexOf(trace, Event("call", <<"remove", "rpc_example.jar">>))
              < IndexOf(trace, Event("echo", KotlincJar))
        /\ Occurs(trace, Event("exec", KotlincJar))
        /\ fs.jar = run

----------------------------------------------------------------------------
(* C6 *)

DarwinSpellings == {Darwin, DARWIN}
LinuxSpellings == {Linux}
WindowsSpellings == {Windows}
OtherIds == {FreeBSD, Java, EmptyId}

\* the state once the resolver has acted
C6_ResolverState ==
    pc # "resolve-platform" =>
        /\ os \in DarwinSpellings => ext = "dylib"
        /\ os \in LinuxSpellings => ext = "so"
        /\ os \in WindowsSpellings => ext = "dll"
        /\ os \in OtherIds =>
              /\ ext = "none"
              /\ pc = "exited"
              /\ exitStatus \notin {None, 0}
              /\ trace = <<StepEvent("resolve-platform")>>

\* C6: once the resolver has acted, the extension is dylib for darwin, so
\* for linux and dll for windows in any letter case; for every other
\* identifier no value is returned and the process has ended with a non-zero
\* status, with no command echoed or executed and no file or directory
\* created, deleted or copied in the run.
C6_PlatformResolver ==
    /\ []C6_ResolverState
    /\ [][(pc = "resolve-platform" /\ os \in OtherIds) => fs' = fs]_vars

C6_Witness ==
    /\ os = DARWIN
    /\ ext = "dylib"
    /\ pc = "build-library"

----------------------------------------------------------------------------
(* C7 *)

LastStep(tr) == Steps(tr)[Len(Steps(tr))]

C7_ExitState ==
    /\ exitStatus = 0 <=> pc = "done"
    /\ Terminated <=> exitStatus # None
    /\ pc = "done" =>
          /\ Steps(trace) = StepOrder
          /\ exc = "none"
          /\ result[CargoBuild] = 0
    /\ (Terminated /\ Steps(trace) = StepOrder /\ exc = "none"
          /\ result[CargoBuild] = 0) => exitStatus = 0
    /\ exc # "none" =>
          /\ pc \in {"raised", "exited"}
          /\ LastStep(trace) = failedStep
          /\ exitStatus # 0

\* C7: the exit status is zero exactly when every step of main returned
\* without raising and the library build exit code was zero; when a step
\* raises, the top-level handler ends the process with a non-zero status, no
\* step after the failing one is begun, and the handler leaves the
\* filesystem as the completed steps left it.
C7_ExitStatus ==
    /\ []C7_ExitState
    /\ [][pc = "raised" =>
             /\ pc' = "exited"
             /\ exitStatus' \notin {None, 0}
             /\ fs' = fs
             /\ trace' = trace]_vars

\* the copier raised on a missing library after the generator of this run
\* wrote its file, which is still there after the exit
C7_Witness ==
    /\ pc = "exited"
    /\ exc = "FileNotFoundError"
    /\ failedStep = "copy-artifact"
    /\ fs.targetLib = Absent
    /\ fs.gen[MainKt] = run
    /\ exitStatus = ExitFailure

----------------------------------------------------------------------------
(* C8 *)

\* the echoed commands follow the order of main
EchoesInOrder(tr) ==
    LET e == Echoes(tr)
        at == [i \in 1..Len(e) |-> IndexOf(CommandOrder, e[i])]
    IN  \A i \in 1..Len(e) :
           /\ at[i] > 0
           /\ i > 1 => at[i - 1] < at[i]

\* every launch or copy comes right after the echo of its command
EchoBeforeExecution(tr) ==
    \A i \in 1..Len(tr) :
       (tr[i].kind = "exec" \/ tr[i] = Event("call", Cp)) =>
          i > 1 /\ tr[i - 1] = Event("echo", tr[i].cmd)

\* C8: the steps of a run begin in the order resolve-platform, build-library,
\* generate-bindings, copy-artifact, fetch-dependencies, build-package,
\* run-tests, each after the previous one returned; a run that reaches done
\* has begun each exactly once; the echo lines follow the same order and each
\* echo precedes the execution of its command.
C8_LinearOrder ==
    LET begun == Steps(trace)
    IN  /\ IsPrefix(begun, StepOrder)
        /\ pc \in {"resolve-platform", "build-library", "generate-bindings",
                   "copy-artifact", "fetch-dependencies", "build-package",
                   "run-tests"} => pc = StepOrder[Len(begun) + 1]
        /\ pc = "done" => begun = StepOrder
        /\ EchoesInOrder(trace)
        /\ EchoBeforeExecution(trace)

C8_Witness ==
    /\ pc = "done"
    /\ Len(Echoes(trace)) = Len(CommandOrder)

----------------------------------------------------------------------------
(* C9 *)

C9_FailureOutcome ==
    (result[Bindgen] \notin {None, 0} /\ Terminated) =>
        \/ /\ pc = "done"
           /\ exitStatus = 0
           /\ Steps(trace) = StepOrder
        \/ /\ pc = "exited"
           /\ exitStatus \notin {None, 0}
           /\ exc = "FileNotFoundError"
           /\ failedStep \in LaterSteps \ {"generate-bindings"}

\* C9: a non-zero exit code of the generator command does not end the run:
\* main goes on to copy-artifact, and the run ends either at done with exit
\* status zero after all steps, or with a non-zero status from a missing-file
\* error raised by a later step.
C9_GeneratorFailureUnchecked ==
    /\ [][(pc = "generate-bindings" /\ result'[Bindgen] \notin {None, 0}) =>
             (pc' = "copy-artifact" /\ exitStatus' = None)]_vars
    /\ []C9_FailureOutcome

\* the generator failed and wrote nothing, and the run still ended with
\* status zero
C9_Witness ==
    /\ result[Bindgen] = 1
    /\ fs.gen[MainKt] = Absent
    /\ pc = "done"
    /\ exitStatus = 0

\* the generator failed without creating the output directory and the
\* copier raised
C9_SurfacesLater ==
    /\ result[Bindgen] = 1
    /\ ~fs.outDir
    /\ pc = "exited"
    /\ failedStep = "copy-artifact"

----------------------------------------------------------------------------
(* C10 *)

Launched(tr) == {tr[i].cmd : i \in {j \in 1..Len(tr) : tr[j].kind = "exec"}}

====
